---- MODULE Spec2Model ----
(***************************************************************************)
(* Model of the empty-cell scanner of pflege_tabl_bot:                     *)
(*   scraper.py  get_empty_cells / process_standard_tables /               *)
(*               process_extjs_grids / get_header_info                     *)
(*   bot.py      check_empty_cells (deduplication) / organize_empty_cells  *)
(*                                                                         *)
(* Strings are sequences of tokens.  A token is an atomic piece of text    *)
(* (a word, a number, one blank " ", one comma ",").  split, strip, lower  *)
(* and the substring test of the code are computed on these sequences.     *)
(* The Cyrillic literals of the source are written in Latin transliteration *)
(* (Stroka, Kolonka, Zapis, Pacient, Pustaya yacheyka, Drugoe): like the     *)
(* originals, none of them contains "item", "row" or "column".              *)
(***************************************************************************)
EXTENDS Integers, Sequences, FiniteSets, TLC

VARIABLES
    page,         \* the rendered DOM the driver serves (fixed during a scan)
    pc,           \* position inside get_empty_cells / check_empty_cells
    driver,       \* "none" | "running" | "quit"
    sel,          \* index of the selector being tried (1..5)
    elements,     \* number of elements find_elements returned for selectors[sel]
    elIdx,        \* index of the next element to process
    local_cells,  \* empty_cells of process_standard_tables / process_extjs_grids
    cells,        \* the local `cells` of process_standard_tables (Unbound at entry)
    empty_cells,  \* empty_cells of get_empty_cells
    pending,      \* exception being handled: "none" | "timeout" | "error"
    result,       \* outcome of get_empty_cells
    unique_cells, \* check_empty_cells: the deduplicated sequence
    organized,    \* check_empty_cells: organize_empty_cells(unique_cells)
    nfaults,      \* number of driver faults injected so far
    hist,         \* history: what the scan did (queried selectors, visited elements)
    findings_with_ids, \* check_empty_cells: the buckets with numbered findings
    raw_file,     \* the record written by save_empty_cells_to_file (NoFile if none)
    checking_chats,    \* bot.checking_chats: absent, or a set of chat ids
    handler       \* what each handler thread of the bot is doing

\* the variables of the report part of check_empty_cells and those of the
\* in-progress marks
reportVars == <<findings_with_ids, raw_file>>
chatVars == <<checking_chats, handler>>

vars == <<page, pc, driver, sel, elements, elIdx, local_cells, cells,
          empty_cells, pending, result, unique_cells, organized, nfaults, hist,
          findings_with_ids, raw_file, checking_chats, handler>>

(***************************************************************************)
(* Bounds of the model                                                     *)
(***************************************************************************)
MaxFaults == 2
MaxElementFaults == 1
MaxHoles == 2
MaxCols == 2
MaxRows == 2
WideCols == 3

(***************************************************************************)
(* Text                                                                    *)
(***************************************************************************)
Blank == " "
Comma == ","

\* str.lower() on one token
LowerTok(t) ==
    CASE t = "Row" -> "row"
      [] t = "Item" -> "item"
      [] t = "Column" -> "column"
      [] t = "Table" -> "table"
      [] t = "ID:" -> "id:"
      [] t = "Header:" -> "header:"
      [] t = "Stroka" -> "stroka"
      [] t = "Kolonka" -> "kolonka"
      [] t = "Kolonka:" -> "kolonka:"
      [] t = "Zapis" -> "zapis"
      [] t = "Pacient:" -> "pacient:"
      [] t = "Pustaya" -> "pustaya"
      [] t = "Error:" -> "error:"
      [] t = "No" -> "no"
      [] OTHER -> t

\* the dedup markers that occur as a substring of a (lower-case) token
MarkersOf(t) ==
    CASE t = "row" -> {"row"}
      [] t = "item" -> {"item"}
      [] t = "column" -> {"column"}
      [] t = "gridcolumn-1" -> {"column"}
      [] t = "gridcolumn-2" -> {"column"}
      [] t = "x-grid-item-container" -> {"item"}
      [] OTHER -> {}

\* str.strip(): drop leading and trailing blanks
RECURSIVE LStrip(_)
LStrip(s) == IF s # <<>> /\ Head(s) = Blank THEN LStrip(Tail(s)) ELSE s

RECURSIVE RStrip(_)
RStrip(s) ==
    IF s # <<>> /\ s[Len(s)] = Blank THEN RStrip(SubSeq(s, 1, Len(s) - 1)) ELSE s

Strip(s) == RStrip(LStrip(s))

\* str.split(','): every comma separates; n commas give n+1 parts
RECURSIVE SplitAll(_, _)
SplitAll(s, cur) ==
    IF s = <<>> THEN <<cur>>
    ELSE IF Head(s) = Comma THEN <<cur>> \o SplitAll(Tail(s), <<>>)
    ELSE SplitAll(Tail(s), Append(cur, Head(s)))

Split(s) == SplitAll(s, <<>>)

\* str.split(',', 1): at most one split, at the first comma
RECURSIVE FirstComma(_, _)
FirstComma(s, i) ==
    IF i > Len(s) THEN 0
    ELSE IF s[i] = Comma THEN i ELSE FirstComma(s, i + 1)

Split1(s) ==
    LET k == FirstComma(s, 1)
    IN  IF k = 0 THEN <<s>>
        ELSE <<SubSeq(s, 1, k - 1), SubSeq(s, k + 1, Len(s))>>

\* f"{n}"
Num(n) == ToString(n)

(***************************************************************************)
(* The page.  A text is a sequence of tokens; an absent attribute and an   *)
(* empty one are both <<>> (Python treats None and "" alike in `x or y`    *)
(* and `if x`).                                                            *)
(*   table : [id, rows], row : [th, td]  (texts of its th and td cells)    *)
(***************************************************************************)
\* the local `cells` of process_standard_tables: unbound until first assigned
Unbound == [bound |-> FALSE, list |-> <<>>]
Bound(list) == [bound |-> TRUE, list |-> list]

\* table.find_elements(By.TAG_NAME, "th"): every th of the table, in order
RECURSIVE AllTh(_)
AllTh(rows) == IF rows = <<>> THEN <<>> ELSE Head(rows).th \o AllTh(Tail(rows))

StripAll(texts) == [i \in 1..Len(texts) |-> Strip(texts[i])]

\* the subsets of P with at most k elements
RECURSIVE KSubsets(_, _)
KSubsets(P, k) ==
    IF k <= 0 THEN {{}}
    ELSE LET S == KSubsets(P, k - 1)
         IN  S \cup {T \cup {p} : T \in S, p \in P}

Max(a, b) == IF a >= b THEN a ELSE b

\* the longest list of th or td cells the scan of a table can hold
RECURSIVE MaxTd(_)
MaxTd(rows) == IF rows = <<>> THEN 0 ELSE Max(Len(Head(rows).td), MaxTd(Tail(rows)))

TableWidth(table) == Max(Len(AllTh(table.rows)), MaxTd(table.rows))

\* the calls of process_standard_tables on one table that may raise
TableFaultPoints(table) ==
    LET nr == Len(table.rows)
        nh == TableWidth(table)
    IN  {<<"rows">>, <<"id">>, <<"th">>, <<"hdrtd">>}
        \cup {<<"hdrtext", k>> : k \in 0..(nh - 1)}
        \cup {<<"rowcells", r>> : r \in 0..(nr - 1)}
        \cup {<<"rowid", r>> : r \in 0..(nr - 1)}
        \cup {<<"celltext", r, c>> : r \in 0..(nr - 1), c \in 0..(nh - 1)}
        \cup {<<"ghi", r, c>> : r \in 0..(nr - 1), c \in 0..(nh - 1)}

\* variant of get_header_info: no secondary lookup
get_no_header_info(table, row_idx, cell_idx, F) == <<>>

\* get_header_info(table, row_idx, cell_idx); any exception inside gives ""
get_header_info(table, row_idx, cell_idx, F) ==
    LET ths == AllTh(table.rows)
        thText == IF ths # <<>> /\ cell_idx < Len(ths)
                  THEN Strip(ths[cell_idx + 1]) ELSE <<>>
        tds == table.rows[1].td
        tdText == IF tds # <<>> /\ cell_idx < Len(tds)
                  THEN Strip(tds[cell_idx + 1]) ELSE <<>>
    IN  IF <<"ghi", row_idx, cell_idx>> \in F THEN <<>>
        ELSE IF thText # <<>> THEN <<"(", "Header:", Blank>> \o thText \o <<")">>
        ELSE IF tdText # <<>> THEN <<"(", "Header:", Blank>> \o tdText \o <<")">>
        ELSE <<>>

\* table.get_attribute("id") or f"Table {table_idx+1}"
TableId(table, table_idx) ==
    IF table.id # <<>> THEN table.id ELSE <<"Table", Blank, Num(table_idx + 1)>>

\* lines 131-147: the headers of a table
AllHeaders(table, F) ==
    LET ths == AllTh(table.rows)
        src == IF ths # <<>> THEN ths
               ELSE IF Len(table.rows) > 0 /\ <<"hdrtd">> \notin F
                    THEN table.rows[1].td
               ELSE <<>>
        bad == {k \in 1..Len(src) : <<"hdrtext", k - 1>> \in F}
        upto == IF bad = {} THEN Len(src)
                ELSE (CHOOSE k \in bad : \A j \in bad : k <= j) - 1
    IN  IF <<"th">> \in F THEN <<>>
        ELSE StripAll(SubSeq(src, 1, upto))

\* line 150
StartRow(all_headers, rows) ==
    IF Len(all_headers) > 0 /\ Len(rows) > 0 THEN 1 ELSE 0

\* lines 168-172
HeaderInfo(table, all_headers, row_idx, cell_idx, F) ==
    IF all_headers # <<>> /\ cell_idx < Len(all_headers)
       /\ all_headers[cell_idx + 1] # <<>>
    THEN <<Blank, "(", "Kolonka:", Blank>> \o all_headers[cell_idx + 1] \o <<")">>
    ELSE get_header_info(table, row_idx, cell_idx, F)

\* line 162 and line 174: the composed description
TableFinding(table_id, row_idx, row_identifier, cell_idx, header_info) ==
    table_id \o <<Comma, Blank, "Stroka", Blank, Num(row_idx + 1)>>
    \o (IF row_identifier # <<>>
        THEN <<Blank, "(", "ID:", Blank>> \o row_identifier \o <<")">>
        ELSE <<>>)
    \o <<Comma, Blank, "Kolonka", Blank, Num(cell_idx + 1)>>
    \o header_info

\* lines 164-174: the cells of one row; a raising cell.text aborts the table
RECURSIVE CellLoop(_, _, _, _, _, _, _, _, _)
CellLoop(table, table_id, all_headers, row_idx, row_identifier, cs, cell_idx, F, out) ==
    IF cell_idx >= Len(cs) THEN [out |-> out, aborted |-> FALSE]
    ELSE IF <<"celltext", row_idx, cell_idx>> \in F
         THEN [out |-> out, aborted |-> TRUE]
    ELSE CellLoop(table, table_id, all_headers, row_idx, row_identifier, cs,
                  cell_idx + 1, F,
                  IF Strip(cs[cell_idx + 1]) = <<>>
                  THEN Append(out,
                         TableFinding(table_id, row_idx, row_identifier, cell_idx,
                            HeaderInfo(table, all_headers, row_idx, cell_idx, F)))
                  ELSE out)

\* lines 155-160: `cells` after the try block of one row (the bare except
\* leaves the previous value of `cells` in place)
RowCells(row, row_idx, cellsIn, F) ==
    IF <<"rowcells", row_idx>> \in F THEN cellsIn ELSE Bound(row.td)

\* lines 154-160: row_identifier (<<>> stands for None and for "")
RowIdentifier(row, row_idx, F) ==
    IF <<"rowcells", row_idx>> \in F \/ <<"rowid", row_idx>> \in F
       \/ row.td = <<>>
    THEN <<>>
    ELSE Strip(row.td[1])

\* lines 152-174: the rows from row_idx on
RECURSIVE RowLoop(_, _, _, _, _, _, _)
RowLoop(table, table_id, all_headers, row_idx, cellsIn, F, out) ==
    IF row_idx >= Len(table.rows) THEN [out |-> out, cells |-> cellsIn]
    ELSE LET row == table.rows[row_idx + 1]
             cs == RowCells(row, row_idx, cellsIn, F)
         IN  IF ~cs.bound
             THEN [out |-> out, cells |-> cs]      \* NameError: table aborted
             ELSE LET r == CellLoop(table, table_id, all_headers, row_idx,
                                    RowIdentifier(row, row_idx, F), cs.list, 0, F, out)
                  IN  IF r.aborted THEN [out |-> r.out, cells |-> cs]
                      ELSE RowLoop(table, table_id, all_headers, row_idx + 1,
                                   cs, F, r.out)

\* lines 124-176: one iteration of the loop over the tables.  The result is
\* what the iteration appends to empty_cells and the value it leaves in the
\* function's local `cells`.
ProcessTable(table, table_idx, cellsIn, F) ==
    IF <<"rows">> \in F \/ <<"id">> \in F
    THEN [out |-> <<>>, cells |-> cellsIn]
    ELSE LET all_headers == AllHeaders(table, F)
         IN  RowLoop(table, TableId(table, table_idx), all_headers,
                     StartRow(all_headers, table.rows), cellsIn, F, <<>>)

(***************************************************************************)
(* process_extjs_grids                                                     *)
(*   grid element : [id, hdr1, hdr2, rows, loose, inner]                   *)
(*     hdr1  texts of its div.x-column-header elements                     *)
(*     hdr2  texts of its span.x-column-header-text elements               *)
(*     rows  its div.x-grid-item elements: [recidx, cells]                 *)
(*     loose its div.x-grid-cell elements outside every div.x-grid-item    *)
(*     inner texts of its div.x-grid-cell-inner elements                   *)
(*   cell : [text, colid]                                                  *)
(***************************************************************************)
GridSelectorName(s) ==
    CASE s = 2 -> "x-grid-item-container"
      [] s = 3 -> "x-grid"
      [] s = 4 -> "x-panel-body"
      [] s = 5 -> "x-grid-view"

\* element.find_elements(By.CSS_SELECTOR, "div.x-grid-cell"), in document
\* order, each with what its nearest div.x-grid-item ancestor exposes
RECURSIVE RowsCells(_)
RowsCells(rows) ==
    IF rows = <<>> THEN <<>>
    ELSE [i \in 1..Len(Head(rows).cells) |->
            [text |-> Head(rows).cells[i].text, colid |-> Head(rows).cells[i].colid,
             hasRow |-> TRUE, recidx |-> Head(rows).recidx]]
         \o RowsCells(Tail(rows))

GridCells(el) ==
    RowsCells(el.rows)
    \o [i \in 1..Len(el.loose) |->
            [text |-> el.loose[i].text, colid |-> el.loose[i].colid,
             hasRow |-> FALSE, recidx |-> <<>>]]

\* int(s) of an attribute value: defined on the decimal tokens only
IsInt(text) == text \in {<<"0">>, <<"1">>, <<"2">>, <<"3">>}

IntOf(text) ==
    CASE text = <<"0">> -> 0
      [] text = <<"1">> -> 1
      [] text = <<"2">> -> 2
      [] text = <<"3">> -> 3

\* the calls of process_extjs_grids on one element that may raise
GridFaultPoints(el) ==
    LET nc == Len(GridCells(el))
        nr == Len(el.rows)
        nh == Max(Max(Len(el.hdr1), Len(el.hdr2)),
                  IF nr > 0 THEN Len(el.rows[1].cells) ELSE 0)
    IN  {<<"gid">>, <<"gcells">>, <<"m1">>, <<"m2">>, <<"m3">>, <<"m3row">>,
         <<"rowids">>, <<"inner">>}
        \cup {<<m, k>> : m \in {"m1text", "m2text", "m3text"}, k \in 0..(nh - 1)}
        \cup {<<"rowidcells", i>> : i \in 0..(nr - 1)}
        \cup {<<m, k>> : m \in {"gcelltext", "rowparent", "recidx", "colid"},
                         k \in 0..(nc - 1)}
        \cup {<<"innertext", k>> : k \in 0..(Len(el.inner) - 1)}

\* the first index at which reading a text raises (Len(texts) if none)
ReadUpto(texts, tag, F) ==
    LET bad == {k \in 0..(Len(texts) - 1) : <<tag, k>> \in F}
    IN  IF bad = {} THEN Len(texts) ELSE CHOOSE k \in bad : \A j \in bad : k <= j

NoHeaders == [i \in {} |-> <<>>]

\* lines 199-208 and 211-220: header_texts[i] = header.text.strip()
HeadersFromElements(texts, findTag, textTag, F) ==
    IF <<findTag>> \in F THEN NoHeaders
    ELSE [i \in 0..(ReadUpto(texts, textTag, F) - 1) |-> Strip(texts[i + 1])]

\* variant of HeadersFromFirstRow: the non-empty texts of the first row are
\* numbered from 0 on, without gaps
HeadersFromFirstRowPacked(el, F) ==
    IF <<"m3">> \in F \/ el.rows = <<>> \/ <<"m3row">> \in F THEN NoHeaders
    ELSE LET texts == [i \in 1..Len(el.rows[1].cells) |-> Strip(el.rows[1].cells[i].text)]
             upto == ReadUpto(texts, "m3text", F)
             kept == SelectSeq(SubSeq(texts, 1, upto), LAMBDA t : t # <<>>)
         IN  [i \in 0..(Len(kept) - 1) |-> kept[i + 1]]

\* lines 223-237: the non-empty cell texts of the first row
HeadersFromFirstRow(el, F) ==
    IF <<"m3">> \in F \/ el.rows = <<>> \/ <<"m3row">> \in F THEN NoHeaders
    ELSE LET texts == [i \in 1..Len(el.rows[1].cells) |-> el.rows[1].cells[i].text]
             upto == ReadUpto(texts, "m3text", F)
         IN  [i \in {j \in 0..(upto - 1) : Strip(texts[j + 1]) # <<>>} |->
                 Strip(texts[i + 1])]

\* lines 195-237: the cascade of the three header techniques
HeaderTexts(el, F) ==
    LET m1 == HeadersFromElements(el.hdr1, "m1", "m1text", F)
        m2 == HeadersFromElements(el.hdr2, "m2", "m2text", F)
    IN  IF DOMAIN m1 # {} THEN m1
        ELSE IF DOMAIN m2 # {} THEN m2
        ELSE HeadersFromFirstRow(el, F)

\* lines 199, 211 and 223: the header techniques that are attempted
MethodsTried(el, F) ==
    LET m1 == HeadersFromElements(el.hdr1, "m1", "m1text", F)
        m2 == HeadersFromElements(el.hdr2, "m2", "m2text", F)
    IN  {1} \cup (IF DOMAIN m1 = {} THEN {2} ELSE {})
            \cup (IF DOMAIN m1 = {} /\ DOMAIN m2 = {} THEN {3} ELSE {})

\* lines 245-257: row_identifiers[i] = text of the first cell of row i
RowIdentifiers(el, F) ==
    IF <<"rowids">> \in F THEN NoHeaders
    ELSE LET bad == {i \in 0..(Len(el.rows) - 1) : <<"rowidcells", i>> \in F}
             upto == IF bad = {} THEN Len(el.rows)
                     ELSE CHOOSE k \in bad : \A j \in bad : k <= j
         IN  [i \in {j \in 0..(upto - 1) : el.rows[j + 1].cells # <<>>} |->
                 Strip(el.rows[i + 1].cells[1].text)]

\* f"{selector.replace('div.', '')} {idx+1}" unless the element has an id
GridId(el, s, idx) ==
    IF el.id # <<>> THEN el.id ELSE <<GridSelectorName(s), Blank, Num(idx + 1)>>

\* lines 263-280
RowInfo(cell, k, row_identifiers, F) ==
    IF <<"rowparent", k>> \in F \/ ~cell.hasRow \/ <<"recidx", k>> \in F
       \/ cell.recidx = <<>> \/ ~IsInt(cell.recidx)
    THEN <<"unknown">>
    ELSE LET row_number == IntOf(cell.recidx)
         IN  cell.recidx
             \o (IF row_number \in DOMAIN row_identifiers
                    /\ row_identifiers[row_number] # <<>>
                 THEN <<Blank, "(", "Pacient:", Blank>>
                      \o row_identifiers[row_number] \o <<")">>
                 ELSE <<>>)

\* lines 282-301
ColInfo(cell, cell_idx, header_texts, F) ==
    IF <<"colid", cell_idx>> \in F THEN <<"Kolonka", Blank, Num(cell_idx + 1)>>
    ELSE IF cell.colid # <<>> THEN cell.colid
    ELSE LET row_cells_count == IF DOMAIN header_texts # {}
                                THEN Cardinality(DOMAIN header_texts) ELSE 1
             col_index == cell_idx % row_cells_count
         IN  <<"Kolonka", Blank, Num(col_index + 1)>>
             \o (IF col_index \in DOMAIN header_texts
                 THEN <<Blank, "(">> \o header_texts[col_index] \o <<")">>
                 ELSE <<>>)

EmptyCellSuffix == <<Blank, "(", "Pustaya", Blank, "yacheyka", ")">>

\* line 303
GridFinding(element_id, row_info, col_info) ==
    element_id \o <<Comma, Blank, "Stroka", Blank>> \o row_info
    \o <<Comma, Blank>> \o col_info \o EmptyCellSuffix

\* lines 260-303: the cells from cell_idx on; a raising cell.text aborts the element
RECURSIVE GridCellLoop(_, _, _, _, _, _, _)
GridCellLoop(cs, element_id, header_texts, row_identifiers, cell_idx, F, out) ==
    IF cell_idx >= Len(cs) \/ <<"gcelltext", cell_idx>> \in F THEN out
    ELSE GridCellLoop(cs, element_id, header_texts, row_identifiers, cell_idx + 1, F,
            IF Strip(cs[cell_idx + 1].text) = <<>>
            THEN Append(out, GridFinding(element_id,
                                RowInfo(cs[cell_idx + 1], cell_idx, row_identifiers, F),
                                ColInfo(cs[cell_idx + 1], cell_idx, header_texts, F)))
            ELSE out)

\* line 316
InnerFinding(element_id, div_idx, header_texts) ==
    LET n == Cardinality(DOMAIN header_texts)
        col_index == IF n > 0 THEN div_idx % n ELSE 0
    IN  element_id \o <<Comma, Blank, "Zapis", Blank, Num(div_idx + 1)>>
        \o (IF n > 0 /\ col_index \in DOMAIN header_texts
            THEN <<Blank, "(", "Kolonka:", Blank>> \o header_texts[col_index] \o <<")">>
            ELSE <<>>)
        \o EmptyCellSuffix

\* lines 304-316: the inner content containers from div_idx on
RECURSIVE InnerLoop(_, _, _, _, _, _)
InnerLoop(inner, element_id, header_texts, div_idx, F, out) ==
    IF div_idx >= Len(inner) \/ <<"innertext", div_idx>> \in F THEN out
    ELSE InnerLoop(inner, element_id, header_texts, div_idx + 1, F,
            IF Strip(inner[div_idx + 1]) = <<>>
            THEN Append(out, InnerFinding(element_id, div_idx, header_texts))
            ELSE out)

\* variant of ProcessGrid: the inner content containers are scanned as well
\* when the element has cells
ProcessGridInnerAlways(el, s, idx, F) ==
    IF <<"gid">> \in F \/ <<"gcells">> \in F THEN <<>>
    ELSE LET cs == GridCells(el)
             header_texts == HeaderTexts(el, F)
             out == IF cs # <<>>
                    THEN GridCellLoop(cs, GridId(el, s, idx), header_texts,
                                      RowIdentifiers(el, F), 0, F, <<>>)
                    ELSE <<>>
         IN  IF <<"inner">> \in F THEN out
             ELSE InnerLoop(el.inner, GridId(el, s, idx), header_texts, 0, F, out)

\* lines 184-319: one iteration of the loop over the matched elements; the
\* result is what the iteration appends to empty_cells
ProcessGrid(el, s, idx, F) ==
    IF <<"gid">> \in F \/ <<"gcells">> \in F THEN <<>>
    ELSE LET cs == GridCells(el)
             header_texts == HeaderTexts(el, F)
         IN  IF cs # <<>>
             THEN GridCellLoop(cs, GridId(el, s, idx), header_texts,
                               RowIdentifiers(el, F), 0, F, <<>>)
             ELSE IF <<"inner">> \in F THEN <<>>
             ELSE InnerLoop(el.inner, GridId(el, s, idx), header_texts, 0, F, <<>>)

(***************************************************************************)
(* bot.py: deduplication of check_empty_cells and organize_empty_cells     *)
(***************************************************************************)
Markers == {"item", "row", "column"}

\* any(x in part.lower() for x in ["item", "row", "column"])
HasMarker(part) ==
    \E i \in 1..Len(part) : MarkersOf(LowerTok(part[i])) \cap Markers # {}

\* '|'.join(parts)
RECURSIVE Join(_)
Join(parts) ==
    IF parts = <<>> THEN <<>>
    ELSE IF Len(parts) = 1 THEN parts[1]
    ELSE parts[1] \o <<"|">> \o Join(Tail(parts))

\* lines 145-149: the stripped parts of the description that carry a marker
RECURSIVE KeyParts(_)
KeyParts(parts) ==
    IF parts = <<>> THEN <<>>
    ELSE (IF HasMarker(Head(parts)) THEN <<Strip(Head(parts))>> ELSE <<>>)
         \o KeyParts(Tail(parts))

\* lines 145-151
CellKey(cell) == Join(KeyParts(Split(cell)))

\* variant of KeepCell: every finding is kept
KeepEvery(cell_key, unique_cell_texts) == TRUE

\* line 153: is the finding kept?
KeepCell(cell_key, unique_cell_texts) == cell_key \notin unique_cell_texts

\* lines 140-155
RECURSIVE DedupLoop(_, _, _)
DedupLoop(raw, unique, unique_cell_texts) ==
    IF raw = <<>> THEN unique
    ELSE LET cell_key == CellKey(Head(raw))
         IN  IF KeepCell(cell_key, unique_cell_texts)
             THEN DedupLoop(Tail(raw), Append(unique, Head(raw)),
                            unique_cell_texts \cup {cell_key})
             ELSE DedupLoop(Tail(raw), unique, unique_cell_texts)

\* variant of Dedup: the test of line 153 inverted, the key recorded in both
\* branches (the repeated findings are kept, the first of each key dropped)
RECURSIVE DedupLoopInverted(_, _, _)
DedupLoopInverted(raw, unique, unique_cell_texts) ==
    IF raw = <<>> THEN unique
    ELSE LET cell_key == CellKey(Head(raw))
         IN  DedupLoopInverted(Tail(raw),
                               IF cell_key \in unique_cell_texts
                               THEN Append(unique, Head(raw)) ELSE unique,
                               unique_cell_texts \cup {cell_key})

DedupInverted(raw) == DedupLoopInverted(raw, <<>>, {})

Dedup(raw) == DedupLoop(raw, <<>>, {})

Other == <<"Drugoe">>

\* variant of AddTo: a new bucket is put in front of the others
AddToFront(org, key, item) ==
    IF \E i \in 1..Len(org) : org[i].key = key
    THEN [i \in 1..Len(org) |->
             IF org[i].key = key
             THEN [key |-> key, items |-> Append(org[i].items, item)]
             ELSE org[i]]
    ELSE <<[key |-> key, items |-> <<item>>]>> \o org

\* organized_cells[key].append(item), creating the bucket at the end if new
\* (a dict keeps insertion order: a sequence of [key, items])
RECURSIVE AddTo(_, _, _)
AddTo(org, key, item) ==
    IF org = <<>> THEN <<[key |-> key, items |-> <<item>>]>>
    ELSE IF Head(org).key = key
         THEN <<[key |-> key, items |-> Append(Head(org).items, item)]>> \o Tail(org)
    ELSE <<Head(org)>> \o AddTo(Tail(org), key, item)

\* lines 67-89
RECURSIVE OrganizeLoop(_, _)
OrganizeLoop(cs, org) ==
    IF cs = <<>> THEN org
    ELSE LET parts == Split1(Head(cs))
         IN  OrganizeLoop(Tail(cs),
                IF Len(parts) > 1
                THEN AddTo(org, Strip(parts[1]), Strip(parts[2]))
                ELSE AddTo(org, Other, Head(cs)))

\* variant of organize_empty_cells: descriptions without a separator are
\* left out
organize_structured_only(cs) ==
    LET Structured(cell) == Len(Split1(cell)) > 1
    IN  OrganizeLoop(SelectSeq(cs, Structured), <<>>)

organize_empty_cells(cs) == OrganizeLoop(cs, <<>>)

(***************************************************************************)
(* get_empty_cells                                                         *)
(***************************************************************************)
NumSelectors == 5

\* line 99
Placeholder(n) ==
    <<"No", Blank, "empty", Blank, "cells", Blank, "identified.", Blank,
      "Page uses ExtJS framework which requires custom selectors.", Blank,
      "Page", Blank, "content", Blank, "length:", Blank, Num(n), Blank, "characters">>

\* line 112
TimeoutError ==
    <<"Error:", Blank, "Page", Blank, "took", Blank, "too", Blank, "long", Blank,
      "to", Blank, "load.", Blank,
      "The site might be using complex JavaScript that requires authentication.">>

ExcKinds == {"timeout", "error"}

NoResult == [kind |-> "none", value |-> <<>>, exc |-> "none"]

(***************************************************************************)
(* The pages the scan is run on                                            *)
(***************************************************************************)
E == <<>>                 \* an empty cell
A == <<"a">>              \* a filled cell
W == <<Blank>>            \* a cell holding only white space
HeaderName(i) == <<"h", Num(i)>>

CellTexts == {E, A}

\* a row: the texts of its th cells, then those of its td cells
Row(ths, tds) == [th |-> ths, td |-> tds]
Table(id, rows) == [id |-> id, rows |-> rows]

HeaderRow(w) == Row([i \in 1..w |-> HeaderName(i)], <<>>)
DataRows(w, n) == [1..n -> {Row(<<>>, tds) : tds \in [1..w -> CellTexts]}]

\* n rows of w td cells, filled except at the positions in holes
Holed(w, n, holes) ==
    [r \in 1..n |-> Row(<<>>, [c \in 1..w |-> IF <<r, c>> \in holes THEN E ELSE A])]

\* the data rows with at most MaxHoles empty cells
HoledRows(w, n) ==
    {Holed(w, n, holes) : holes \in KSubsets((1..n) \X (1..w), MaxHoles)}

\* the data rows with at most one empty cell
OneHoleRows(w, n) ==
    {Holed(w, n, holes) : holes \in KSubsets((1..n) \X (1..w), 1)}

\* the data rows with at most MaxHoles empty cells, all in one row
HoledOneRow(w, n) ==
    {Holed(w, n, holes) :
        holes \in UNION {KSubsets({r} \X (1..w), MaxHoles) : r \in 1..n} \cup {{}}}

\* the row sequences of the one-table pages: a th header row first; a th
\* cell at the start of every row, the first without text, the empty cells
\* in one row; and, with at most
\* one empty cell: no th at all, a header with an empty first text, the th
\* row last, a th cell with text at the start of every row, a first row of
\* white space
TableShapes(w, n) ==
    {<<HeaderRow(w)>> \o d : d \in HoledRows(w, n)}
    \cup {[i \in 1..n |-> Row(<<IF i = 1 THEN E ELSE HeaderName(i)>>, d[i].td)] :
             d \in HoledOneRow(w, n)}
    \cup OneHoleRows(w, n)
    \cup {<<Row([i \in 1..w |-> IF i = 1 THEN E ELSE HeaderName(i)], <<>>)>> \o d :
             d \in OneHoleRows(w, n)}
    \cup {d \o <<HeaderRow(w)>> : d \in OneHoleRows(w, n)}
    \cup {[i \in 1..n |-> Row(<<HeaderName(i)>>, d[i].td)] : d \in OneHoleRows(w, n)}
    \cup {<<Row(<<>>, [i \in 1..w |-> W])>> \o d : d \in OneHoleRows(w, n)}

NoGrids == [s \in 2..NumSelectors |-> <<>>]

Page(tables, grids, n) == [tables |-> tables, grids |-> grids, body_len |-> n]

OneTablePages ==
    {Page(<<Table(E, rows)>>, NoGrids, 9) :
        rows \in UNION {TableShapes(MaxCols, n) : n \in 0..MaxRows}}
    \cup {Page(<<Table(<<"tbl">>, <<HeaderRow(MaxCols)>> \o d)>>, NoGrids, 9) :
            d \in HoledRows(MaxCols, 1)}

\* one data row of w td cells, the first k of them empty
EmptyPrefixRows(w) ==
    {<<Row(<<>>, [i \in 1..w |-> IF i <= k THEN E ELSE A])>> : k \in 0..w}

\* two tables of WideCols columns, a header row (th or td) and one data row
\* that starts with empty cells; the second table is full or has its first
\* cell empty
WideTables ==
    {Table(E, <<HeaderRow(WideCols)>> \o d) : d \in EmptyPrefixRows(WideCols)}
    \cup {Table(E, <<Row(<<>>, [i \in 1..WideCols |-> HeaderName(i)])>> \o d) :
            d \in EmptyPrefixRows(WideCols)}

SecondTables ==
    {Table(E, <<HeaderRow(WideCols),
                Row(<<>>, [i \in 1..WideCols |-> IF i = 1 THEN t ELSE A])>>) :
        t \in CellTexts}

TwoTablePages ==
    {Page(<<t1, t2>>, NoGrids, 9) : t1 \in WideTables, t2 \in SecondTables}

Cell(text, colid) == [text |-> text, colid |-> colid]
GridRow(recidx, cs) == [recidx |-> recidx, cells |-> cs]
Grid(id, hdr1, hdr2, rows, loose, inner) ==
    [id |-> id, hdr1 |-> hdr1, hdr2 |-> hdr2, rows |-> rows, loose |-> loose,
     inner |-> inner]

Headers2 == <<HeaderName(1), HeaderName(2)>>

\* grids of two rows of two cells, with each header technique; grids of one
\* row; grids of loose cells, each with its inner container; grids of inner
\* containers only, the last ones
\* with column header elements that have no text; grids without header
\* elements whose first row starts with an empty cell
GridPool ==
    {Grid(E, h.a, h.b,
          <<GridRow(<<"0">>, <<Cell(A, E), Cell(t1, E)>>),
            GridRow(<<"1">>, <<Cell(t2, E), Cell(t3, c3)>>)>>, <<>>, <<>>) :
        h \in {[a |-> Headers2, b |-> <<>>], [a |-> <<>>, b |-> Headers2],
               [a |-> <<>>, b |-> <<>>]},
        t1 \in CellTexts, t2 \in CellTexts, t3 \in CellTexts,
        c3 \in {E, <<"gridcolumn-1">>}}
    \cup {Grid(E, Headers2, <<>>,
               <<GridRow(r, <<Cell(t1, c), Cell(t2, <<"gridcolumn-2">>)>>)>>,
               <<>>, <<>>) :
            r \in {E, <<"0">>, <<"x">>}, c \in {E, <<"gridcolumn-1">>},
            t1 \in CellTexts, t2 \in CellTexts}
    \cup {Grid(<<"grid">>, Headers2, <<>>, <<>>,
               <<Cell(t1, E), Cell(t2, E)>>, <<t1, t2>>) :
            t1 \in CellTexts, t2 \in CellTexts}
    \cup {Grid(E, h, <<>>, <<>>, <<>>, <<t1, t2, t3>>) :
            h \in {<<>>, Headers2},
            t1 \in CellTexts, t2 \in CellTexts, t3 \in CellTexts}
    \cup {Grid(E, <<E, E>>, Headers2, <<>>, <<>>, <<t1, t2>>) :
            t1 \in CellTexts, t2 \in CellTexts}
    \cup {Grid(E, <<>>, <<>>,
               <<GridRow(<<"0">>, <<Cell(E, E), Cell(A, E)>>),
                 GridRow(<<"1">>, <<Cell(t2, E), Cell(t3, E)>>)>>, <<>>, <<>>) :
            t2 \in CellTexts, t3 \in CellTexts}

SmallGridPool ==
    {Grid(E, Headers2, <<>>,
          <<GridRow(<<"0">>, <<Cell(A, E), Cell(t1, E)>>)>>, <<>>, <<A, t1>>) :
        t1 \in CellTexts}
    \cup {Grid(E, <<>>, <<>>, <<>>, <<>>, <<t1>>) : t1 \in CellTexts}

InnerGrids == {Grid(E, <<>>, <<>>, <<>>, <<>>, <<t1>>) : t1 \in CellTexts}

\* one grid element, matched by the first or by the last grid selector
OneGridPages ==
    {Page(<<>>, [NoGrids EXCEPT ![s] = <<g>>], 9) :
        s \in {2, NumSelectors}, g \in GridPool}

SmallTables == {Table(E, <<HeaderRow(1)>> \o d) : d \in DataRows(1, 1)}

\* tables and grids together: one table, two elements under the first grid
\* selector, one under another
MixedPages ==
    {Page(<<t>>, [NoGrids EXCEPT ![2] = <<g1, g2>>, ![NumSelectors] = <<g3>>], 9) :
        t \in SmallTables, g1 \in SmallGridPool, g2 \in InnerGrids,
        g3 \in InnerGrids}

EmptyPages == {Page(<<>>, NoGrids, n) : n \in {0, 5}}

Pages == OneTablePages \cup TwoTablePages \cup OneGridPages \cup MixedPages
         \cup EmptyPages

(***************************************************************************)
(* The scan as a state machine.  Every driver call either succeeds or      *)
(* raises; a raised exception is a TimeoutException ("timeout") or any     *)
(* other exception ("error").  At most MaxFaults calls raise in one run.   *)
(***************************************************************************)
MayFault == nfaults < MaxFaults

\* an exception raised inside the inner try block (lines 50-106)
RaiseInner(kind) ==
    /\ pending' = kind
    /\ pc' = IF kind = "timeout" THEN "timeout_screenshot" ELSE "outer"

\* the element lists of the page, by selector index
ElementsOf(s) == IF s = 1 THEN page.tables ELSE page.grids[s]

\* the end of one iteration of the loop over the selectors
NextSelector ==
    IF sel < NumSelectors
    THEN sel' = sel + 1 /\ pc' = "find"
    ELSE sel' = sel /\ pc' = "fallback"

\* line 41
CreateDriver ==
    /\ pc = "start"
    /\ driver' = "running"
    /\ pc' = "load"
    /\ UNCHANGED <<reportVars, chatVars>>
    /\ UNCHANGED <<page, sel, elements, elIdx, local_cells, cells, empty_cells,
                   pending, result, unique_cells, organized, nfaults, hist>>

\* line 41 raises: `driver` is not bound, the outer handler only re-raises
CreateDriverFails ==
    /\ pc = "start" /\ MayFault
    /\ \E kind \in ExcKinds : pending' = kind
    /\ pc' = "outer"
    /\ nfaults' = nfaults + 1
    /\ hist' = [hist EXCEPT !.acqFault = TRUE]
    /\ UNCHANGED <<reportVars, chatVars>>
    /\ UNCHANGED <<page, driver, sel, elements, elIdx, local_cells, cells,
                   empty_cells, result, unique_cells, organized>>

\* line 45
LoadUrl ==
    /\ pc = "load"
    /\ pc' = "wait"
    /\ UNCHANGED <<reportVars, chatVars>>
    /\ UNCHANGED <<page, driver, sel, elements, elIdx, local_cells, cells,
                   empty_cells, pending, result, unique_cells, organized, nfaults, hist>>

\* variant of LoadUrlFails: driver.get called inside the inner try block
LoadUrlFailsInner ==
    /\ pc = "load" /\ MayFault
    /\ \E kind \in ExcKinds : RaiseInner(kind)
    /\ nfaults' = nfaults + 1
    /\ hist' = [hist EXCEPT !.acqFault = TRUE]
    /\ UNCHANGED <<reportVars, chatVars>>
    /\ UNCHANGED <<page, driver, sel, elements, elIdx, local_cells, cells,
                   empty_cells, result, unique_cells, organized>>

\* line 45 raises (outside the inner try: also a TimeoutException goes to
\* the outer handler)
LoadUrlFails ==
    /\ pc = "load" /\ MayFault
    /\ \E kind \in ExcKinds : pending' = kind
    /\ pc' = "outer"
    /\ nfaults' = nfaults + 1
    /\ hist' = [hist EXCEPT !.acqFault = TRUE]
    /\ UNCHANGED <<reportVars, chatVars>>
    /\ UNCHANGED <<page, driver, sel, elements, elIdx, local_cells, cells,
                   empty_cells, result, unique_cells, organized>>

\* lines 52-58: the body is located within the wait
WaitBody ==
    /\ pc = "wait"
    /\ pc' = "screenshot"
    /\ hist' = [hist EXCEPT !.snapshot = TRUE]
    /\ UNCHANGED <<reportVars, chatVars>>
    /\ UNCHANGED <<page, driver, sel, elements, elIdx, local_cells, cells,
                   empty_cells, pending, result, unique_cells, organized, nfaults>>

\* variant of WaitTimesOut: the TimeoutException is not caught at line 108
WaitTimesOutUnhandled ==
    /\ pc = "wait" /\ MayFault
    /\ RaiseInner("error")
    /\ nfaults' = nfaults + 1
    /\ hist' = [hist EXCEPT !.waitTimeout = TRUE]
    /\ UNCHANGED <<reportVars, chatVars>>
    /\ UNCHANGED <<page, driver, sel, elements, elIdx, local_cells, cells,
                   empty_cells, result, unique_cells, organized>>

\* lines 52-54: the wait times out
WaitTimesOut ==
    /\ pc = "wait" /\ MayFault
    /\ RaiseInner("timeout")
    /\ nfaults' = nfaults + 1
    /\ hist' = [hist EXCEPT !.waitTimeout = TRUE]
    /\ UNCHANGED <<reportVars, chatVars>>
    /\ UNCHANGED <<page, driver, sel, elements, elIdx, local_cells, cells,
                   empty_cells, result, unique_cells, organized>>

\* lines 52-54: the wait raises something else (the session died)
WaitFails ==
    /\ pc = "wait" /\ MayFault
    /\ RaiseInner("error")
    /\ nfaults' = nfaults + 1
    /\ UNCHANGED <<reportVars, chatVars>>
    /\ UNCHANGED <<page, driver, sel, elements, elIdx, local_cells, cells,
                   empty_cells, result, unique_cells, organized, hist>>

\* a driver call of the inner try block outside the selector loop that only
\* logs: line 61 (screenshot), line 64 (title), line 102 (page_source)
PlainCall(at, next) ==
    /\ pc = at
    /\ pc' = next
    /\ UNCHANGED <<reportVars, chatVars>>
    /\ UNCHANGED <<page, driver, sel, elements, elIdx, local_cells, cells,
                   empty_cells, pending, result, unique_cells, organized, nfaults, hist>>

PlainCallFails(at) ==
    /\ pc = at /\ MayFault
    /\ \E kind \in ExcKinds : RaiseInner(kind)
    /\ nfaults' = nfaults + 1
    /\ hist' = [hist EXCEPT !.lateFault = TRUE]
    /\ UNCHANGED <<reportVars, chatVars>>
    /\ UNCHANGED <<page, driver, sel, elements, elIdx, local_cells, cells,
                   empty_cells, result, unique_cells, organized>>

SaveScreenshot == PlainCall("screenshot", "title")
SaveScreenshotFails == PlainCallFails("screenshot")
LogTitle == PlainCall("title", "find")
LogTitleFails == PlainCallFails("title")

\* line 80, then line 82: with no element the iteration ends
FindElements ==
    /\ pc = "find"
    /\ elements' = Len(ElementsOf(sel))
    /\ elIdx' = 1
    /\ local_cells' = <<>>
    /\ cells' = Unbound
    /\ hist' = [hist EXCEPT !.queried = Append(@, sel)]
    /\ IF Len(ElementsOf(sel)) > 0
       THEN pc' = "process" /\ sel' = sel
       ELSE NextSelector
    /\ UNCHANGED <<reportVars, chatVars>>
    /\ UNCHANGED <<page, driver, empty_cells, pending, result, unique_cells,
                   organized, nfaults>>

\* variant of FindElementsFails: the try block encloses the whole loop, the
\* first failing selector ends it
FindElementsFailsAborts ==
    /\ pc = "find" /\ MayFault
    /\ nfaults' = nfaults + 1
    /\ hist' = [hist EXCEPT !.queried = Append(@, sel),
                            !.findFailed = @ \cup {sel}]
    /\ sel' = sel /\ pc' = "fallback"
    /\ UNCHANGED <<reportVars, chatVars>>
    /\ UNCHANGED <<page, driver, elements, elIdx, local_cells, cells,
                   empty_cells, pending, result, unique_cells, organized>>

\* line 80 raises: caught at line 92, the loop goes on
FindElementsFails ==
    /\ pc = "find" /\ MayFault
    /\ nfaults' = nfaults + 1
    /\ hist' = [hist EXCEPT !.queried = Append(@, sel),
                            !.findFailed = @ \cup {sel}]
    /\ NextSelector
    /\ UNCHANGED <<reportVars, chatVars>>
    /\ UNCHANGED <<page, driver, elements, elIdx, local_cells, cells,
                   empty_cells, pending, result, unique_cells, organized>>

\* the faults injected into the processing of one element
ElementFaults(points) ==
    KSubsets(points, IF MaxFaults - nfaults < MaxElementFaults
                     THEN MaxFaults - nfaults ELSE MaxElementFaults)

\* one iteration of the loop of process_standard_tables (lines 124-176)
ProcessStandardTable ==
    /\ pc = "process" /\ sel = 1 /\ elIdx <= elements
    /\ \E F \in ElementFaults(TableFaultPoints(page.tables[elIdx])) :
          LET r == ProcessTable(page.tables[elIdx], elIdx - 1, cells, F)
          IN  /\ local_cells' = local_cells \o r.out
              /\ cells' = r.cells
              /\ nfaults' = nfaults + Cardinality(F)
              /\ hist' = [hist EXCEPT
                            !.visited = Append(@, <<sel, elIdx>>),
                            !.faulted = IF F = {} THEN @ ELSE @ \cup {<<sel, elIdx>>}]
    /\ elIdx' = elIdx + 1
    /\ UNCHANGED <<reportVars, chatVars>>
    /\ UNCHANGED <<page, pc, driver, sel, elements, empty_cells, pending, result,
                   unique_cells, organized>>

\* one iteration of the loop of process_extjs_grids (lines 184-319)
ProcessExtjsGrid ==
    /\ pc = "process" /\ sel > 1 /\ elIdx <= elements
    /\ \E F \in ElementFaults(GridFaultPoints(page.grids[sel][elIdx])) :
          /\ local_cells' = local_cells
                            \o ProcessGrid(page.grids[sel][elIdx], sel, elIdx - 1, F)
          /\ nfaults' = nfaults + Cardinality(F)
          /\ hist' = [hist EXCEPT
                        !.visited = Append(@, <<sel, elIdx>>),
                        !.faulted = IF F = {} THEN @ ELSE @ \cup {<<sel, elIdx>>}]
    /\ elIdx' = elIdx + 1
    /\ UNCHANGED <<reportVars, chatVars>>
    /\ UNCHANGED <<page, pc, driver, sel, elements, cells, empty_cells, pending,
                   result, unique_cells, organized>>

\* variant of Extend: the findings of the selector are put in front
ExtendFront ==
    /\ pc = "process" /\ elIdx > elements
    /\ empty_cells' = local_cells \o empty_cells
    /\ hist' = [hist EXCEPT !.found = @ + Len(local_cells),
                            !.contrib = Append(@, <<sel, local_cells>>)]
    /\ NextSelector
    /\ UNCHANGED <<reportVars, chatVars>>
    /\ UNCHANGED <<page, driver, elements, elIdx, local_cells, cells, pending,
                   result, unique_cells, organized, nfaults>>

\* lines 87 and 90: empty_cells.extend(...) with what the function returns
Extend ==
    /\ pc = "process" /\ elIdx > elements
    /\ empty_cells' = empty_cells \o local_cells
    /\ hist' = [hist EXCEPT !.found = @ + Len(local_cells),
                            !.contrib = Append(@, <<sel, local_cells>>)]
    /\ NextSelector
    /\ UNCHANGED <<reportVars, chatVars>>
    /\ UNCHANGED <<page, driver, elements, elIdx, local_cells, cells, pending,
                   result, unique_cells, organized, nfaults>>

\* variant of BodyText: nothing is appended when nothing was found
BodyTextNoPlaceholder ==
    /\ pc = "fallback" /\ empty_cells = <<>>
    /\ empty_cells' = <<>>
    /\ pc' = "page_source"
    /\ UNCHANGED <<reportVars, chatVars>>
    /\ UNCHANGED <<page, driver, sel, elements, elIdx, local_cells, cells,
                   pending, result, unique_cells, organized, nfaults, hist>>

\* lines 96-99: nothing found, the placeholder is appended
BodyText ==
    /\ pc = "fallback" /\ empty_cells = <<>>
    /\ empty_cells' = <<Placeholder(page.body_len)>>
    /\ pc' = "page_source"
    /\ UNCHANGED <<reportVars, chatVars>>
    /\ UNCHANGED <<page, driver, sel, elements, elIdx, local_cells, cells,
                   pending, result, unique_cells, organized, nfaults, hist>>

\* line 98 raises
BodyTextFails ==
    /\ empty_cells = <<>>
    /\ PlainCallFails("fallback")

PageSource == PlainCall("page_source", "quit")
PageSourceFails == PlainCallFails("page_source")

AtQuit == pc = "quit" \/ (pc = "fallback" /\ empty_cells # <<>>)

\* lines 105-106
QuitAndReturn ==
    /\ AtQuit
    /\ driver' = "quit"
    /\ result' = [kind |-> "returned", value |-> empty_cells, exc |-> "none"]
    /\ pc' = "returned"
    /\ UNCHANGED <<reportVars, chatVars>>
    /\ UNCHANGED <<page, sel, elements, elIdx, local_cells, cells, empty_cells,
                   pending, unique_cells, organized, nfaults, hist>>

\* line 105 raises
QuitFails ==
    /\ AtQuit /\ MayFault
    /\ \E kind \in ExcKinds : RaiseInner(kind)
    /\ nfaults' = nfaults + 1
    /\ hist' = [hist EXCEPT !.lateFault = TRUE]
    /\ UNCHANGED <<reportVars, chatVars>>
    /\ UNCHANGED <<page, driver, sel, elements, elIdx, local_cells, cells,
                   empty_cells, result, unique_cells, organized>>

\* line 110 (the handler of TimeoutException)
TimeoutScreenshot ==
    /\ pc = "timeout_screenshot"
    /\ pc' = "timeout_quit"
    /\ UNCHANGED <<reportVars, chatVars>>
    /\ UNCHANGED <<page, driver, sel, elements, elIdx, local_cells, cells,
                   empty_cells, pending, result, unique_cells, organized, nfaults, hist>>

\* variant of TimeoutQuitAndReturn: the handler returns an empty list
TimeoutQuitReturnsNothing ==
    /\ pc = "timeout_quit"
    /\ driver' = "quit"
    /\ result' = [kind |-> "returned", value |-> <<>>, exc |-> "none"]
    /\ pc' = "returned"
    /\ UNCHANGED <<reportVars, chatVars>>
    /\ UNCHANGED <<page, sel, elements, elIdx, local_cells, cells, empty_cells,
                   pending, unique_cells, organized, nfaults, hist>>

\* lines 111-112
TimeoutQuitAndReturn ==
    /\ pc = "timeout_quit"
    /\ driver' = "quit"
    /\ result' = [kind |-> "returned", value |-> <<TimeoutError>>, exc |-> "none"]
    /\ pc' = "returned"
    /\ UNCHANGED <<reportVars, chatVars>>
    /\ UNCHANGED <<page, sel, elements, elIdx, local_cells, cells, empty_cells,
                   pending, unique_cells, organized, nfaults, hist>>

\* line 110 or line 111 raises: an exception raised in the handler of the
\* inner try goes to the outer handler
TimeoutHandlerFails ==
    /\ pc \in {"timeout_screenshot", "timeout_quit"} /\ MayFault
    /\ \E kind \in ExcKinds : pending' = kind
    /\ pc' = "outer"
    /\ nfaults' = nfaults + 1
    /\ hist' = [hist EXCEPT !.handlerFault = TRUE]
    /\ UNCHANGED <<reportVars, chatVars>>
    /\ UNCHANGED <<page, driver, sel, elements, elIdx, local_cells, cells,
                   empty_cells, result, unique_cells, organized>>

\* variant of OuterHandler: the exception is re-raised without quitting the
\* driver
OuterHandlerNoQuit ==
    /\ pc = "outer"
    /\ driver' = driver
    /\ result' = [kind |-> "raised", value |-> <<>>, exc |-> pending]
    /\ pc' = "raised"
    /\ UNCHANGED <<reportVars, chatVars>>
    /\ UNCHANGED <<page, sel, elements, elIdx, local_cells, cells, empty_cells,
                   pending, unique_cells, organized, nfaults, hist>>

\* lines 114-118: quit the driver if it was created, re-raise
OuterHandler ==
    /\ pc = "outer"
    /\ driver' = IF driver = "none" THEN "none" ELSE "quit"
    /\ result' = [kind |-> "raised", value |-> <<>>, exc |-> pending]
    /\ pc' = "raised"
    /\ UNCHANGED <<reportVars, chatVars>>
    /\ UNCHANGED <<page, sel, elements, elIdx, local_cells, cells, empty_cells,
                   pending, unique_cells, organized, nfaults, hist>>

\* line 117 raises: that exception leaves the function instead
OuterQuitFails ==
    /\ pc = "outer" /\ driver # "none" /\ MayFault
    /\ \E kind \in ExcKinds :
          result' = [kind |-> "raised", value |-> <<>>, exc |-> kind]
    /\ pc' = "raised"
    /\ nfaults' = nfaults + 1
    /\ hist' = [hist EXCEPT !.outerQuitFault = TRUE]
    /\ UNCHANGED <<reportVars, chatVars>>
    /\ UNCHANGED <<page, driver, sel, elements, elIdx, local_cells, cells,
                   empty_cells, pending, unique_cells, organized>>

(***************************************************************************)
(* check_empty_cells after the scan returned (bot.py lines 137-162)        *)
(***************************************************************************)
Deduplicate ==
    /\ pc = "returned"
    /\ unique_cells' = Dedup(result.value)
    /\ pc' = "deduped"
    /\ UNCHANGED <<reportVars, chatVars>>
    /\ UNCHANGED <<page, driver, sel, elements, elIdx, local_cells, cells,
                   empty_cells, pending, result, organized, nfaults, hist>>

\* lines 157-162
Organize ==
    /\ pc = "deduped" /\ unique_cells # <<>>
    /\ organized' = organize_empty_cells(unique_cells)
    /\ pc' = "organized"
    /\ UNCHANGED <<reportVars, chatVars>>
    /\ UNCHANGED <<page, driver, sel, elements, elIdx, local_cells, cells,
                   empty_cells, pending, result, unique_cells, nfaults, hist>>

\* lines 157-159: nothing to report
AllFilledReply ==
    /\ pc = "deduped" /\ unique_cells = <<>>
    /\ pc' = "all_filled"
    /\ UNCHANGED <<reportVars, chatVars>>
    /\ UNCHANGED <<page, driver, sel, elements, elIdx, local_cells, cells,
                   empty_cells, pending, result, unique_cells, organized,
                   nfaults, hist>>

\* lines 165-175: the findings of the buckets numbered from `next` on, in the
\* order of the buckets
RECURSIVE NumberFrom(_, _)
\* variant of NumberFrom: the identifiers start again in every bucket
NumberPerBucket(org, next) ==
    [b \in 1..Len(org) |->
        [key |-> org[b].key,
         items |-> [k \in 1..Len(org[b].items) |->
                       [id |-> next + k - 1, description |-> org[b].items[k]]]]]

NumberFrom(org, next) ==
    IF org = <<>> THEN <<>>
    ELSE <<[key |-> Head(org).key,
            items |-> [k \in 1..Len(Head(org).items) |->
                          [id |-> next + k - 1,
                           description |-> Head(org).items[k]]]]>>
         \o NumberFrom(Tail(org), next + Len(Head(org).items))

\* lines 164-185: the findings are numbered and written to the findings file
WriteFindings ==
    /\ pc = "organized"
    /\ findings_with_ids' = NumberFrom(organized, 1)
    /\ pc' = "numbered"
    /\ UNCHANGED <<raw_file, chatVars>>
    /\ UNCHANGED <<page, driver, sel, elements, elIdx, local_cells, cells,
                   empty_cells, pending, result, unique_cells, organized,
                   nfaults, hist>>

\* line 184 or 185 raises: the handler of line 292 reports the error, the
\* raw file is not written
WriteFindingsFails ==
    /\ pc = "organized" /\ MayFault
    /\ findings_with_ids' = NumberFrom(organized, 1)
    /\ pc' = "failed"
    /\ nfaults' = nfaults + 1
    /\ UNCHANGED <<raw_file, chatVars>>
    /\ UNCHANGED <<page, driver, sel, elements, elIdx, local_cells, cells,
                   empty_cells, pending, result, unique_cells, organized, hist>>

\* datetime.now().isoformat()
Timestamp == <<"now">>

NoFile == [written |-> FALSE, data |-> [timestamp |-> <<>>, empty_cells |-> <<>>]]

\* variant of save_empty_cells_to_file: called with the deduplicated list
save_unique_cells_to_file ==
    [written |-> TRUE,
     data |-> [timestamp |-> Timestamp, empty_cells |-> unique_cells]]

\* lines 91-105, called at line 188 with the list the scan returned
save_empty_cells_to_file ==
    [written |-> TRUE,
     data |-> [timestamp |-> Timestamp, empty_cells |-> result.value]]

\* line 188
SaveRaw ==
    /\ pc = "numbered"
    /\ raw_file' = save_empty_cells_to_file
    /\ pc' = "saved"
    /\ UNCHANGED <<findings_with_ids, chatVars>>
    /\ UNCHANGED <<page, driver, sel, elements, elIdx, local_cells, cells,
                   empty_cells, pending, result, unique_cells, organized,
                   nfaults, hist>>

\* lines 106-108: the file cannot be written, None is returned
SaveRawFails ==
    /\ pc = "numbered" /\ MayFault
    /\ pc' = "saved"
    /\ nfaults' = nfaults + 1
    /\ UNCHANGED <<reportVars, chatVars>>
    /\ UNCHANGED <<page, driver, sel, elements, elIdx, local_cells, cells,
                   empty_cells, pending, result, unique_cells, organized, hist>>

NoHist == [acqFault |-> FALSE, snapshot |-> FALSE, waitTimeout |-> FALSE,
           lateFault |-> FALSE, handlerFault |-> FALSE, queried |-> <<>>,
           findFailed |-> {}, visited |-> <<>>, faulted |-> {}, found |-> 0,
           contrib |-> <<>>, outerQuitFault |-> FALSE]

InitScan ==
    /\ pc = "start"
    /\ driver = "none"
    /\ sel = 1
    /\ elements = 0
    /\ elIdx = 1
    /\ local_cells = <<>>
    /\ cells = Unbound
    /\ empty_cells = <<>>
    /\ pending = "none"
    /\ result = NoResult
    /\ unique_cells = <<>>
    /\ organized = <<>>
    /\ nfaults = 0
    /\ hist = NoHist

InitReport ==
    /\ findings_with_ids = <<>>
    /\ raw_file = NoFile

(***************************************************************************)
(* The in-progress marks of check_empty_cells (bot.py lines 110-124 and    *)
(* 295-298).  The handlers of the bot run on the worker threads of the     *)
(* TeleBot object of line 46; a thread may be suspended between any two    *)
(* statements.                                                             *)
(***************************************************************************)
NumThreads == 2
MaxChats == 2

Threads == 1..NumThreads
Chats == 1..MaxChats

Idle == [pc |-> "idle", chat |-> 0]
NoMarks == [present |-> FALSE, chats |-> {}]

At(t, where) == handler[t].pc = where
Goto(t, where) == handler' = [handler EXCEPT ![t].pc = where]

scanVars == <<page, pc, driver, sel, elements, elIdx, local_cells, cells,
              empty_cells, pending, result, unique_cells, organized, nfaults, hist>>

\* a /check message of chat c is given to the idle thread t
Receive(t) ==
    /\ At(t, "idle")
    /\ \E c \in Chats : handler' = [handler EXCEPT ![t] = [pc |-> "check", chat |-> c]]
    /\ UNCHANGED <<checking_chats, scanVars, reportVars>>

\* lines 114-116: the chat is marked, the message is answered and dropped
AlreadyRunning(t) ==
    /\ At(t, "check")
    /\ checking_chats.present /\ handler[t].chat \in checking_chats.chats
    /\ handler' = [handler EXCEPT ![t] = Idle]
    /\ UNCHANGED <<checking_chats, scanVars, reportVars>>

\* line 114: the chat is not marked
NotRunning(t) ==
    /\ At(t, "check")
    /\ ~(checking_chats.present /\ handler[t].chat \in checking_chats.chats)
    /\ Goto(t, "hasattr")
    /\ UNCHANGED <<checking_chats, scanVars, reportVars>>

\* line 119
HasAttr(t) ==
    /\ At(t, "hasattr")
    /\ Goto(t, IF checking_chats.present THEN "add" ELSE "newset")
    /\ UNCHANGED <<checking_chats, scanVars, reportVars>>

\* line 120: bot.checking_chats = set()
NewSet(t) ==
    /\ At(t, "newset")
    /\ checking_chats' = [present |-> TRUE, chats |-> {}]
    /\ Goto(t, "add")
    /\ UNCHANGED <<scanVars, reportVars>>

\* line 121
AddChat(t) ==
    /\ At(t, "add")
    /\ checking_chats' = [checking_chats EXCEPT !.chats = @ \cup {handler[t].chat}]
    /\ Goto(t, "reply")
    /\ UNCHANGED <<scanVars, reportVars>>

\* line 124
StartReply(t) ==
    /\ At(t, "reply")
    /\ Goto(t, "scan")
    /\ UNCHANGED <<checking_chats, scanVars, reportVars>>

\* line 124 raises (it is outside the try of line 126): the handler ends,
\* the mark stays
StartReplyFails(t) ==
    /\ At(t, "reply")
    /\ handler' = [handler EXCEPT ![t] = Idle]
    /\ UNCHANGED <<checking_chats, scanVars, reportVars>>

\* lines 126-294: the scan and the report, ended by a return or an exception
ScanEnds(t) ==
    /\ At(t, "scan")
    /\ Goto(t, "finally")
    /\ UNCHANGED <<checking_chats, scanVars, reportVars>>

\* lines 295-298
Finally(t) ==
    /\ At(t, "finally")
    /\ checking_chats' = [checking_chats EXCEPT !.chats = @ \ {handler[t].chat}]
    /\ handler' = [handler EXCEPT ![t] = Idle]
    /\ UNCHANGED <<scanVars, reportVars>>

InitChat ==
    /\ checking_chats = NoMarks
    /\ handler = [t \in Threads |-> Idle]

(***************************************************************************)
(* One scan of a page, followed by the report                              *)
(***************************************************************************)
Init == page \in Pages /\ InitScan /\ InitReport /\ InitChat

Next ==
    \/ CreateDriver \/ CreateDriverFails
    \/ LoadUrl \/ LoadUrlFails
    \/ WaitBody \/ WaitTimesOut \/ WaitFails
    \/ SaveScreenshot \/ SaveScreenshotFails
    \/ LogTitle \/ LogTitleFails
    \/ FindElements \/ FindElementsFails
    \/ ProcessStandardTable \/ ProcessExtjsGrid \/ Extend
    \/ BodyText \/ BodyTextFails
    \/ PageSource \/ PageSourceFails
    \/ QuitAndReturn \/ QuitFails
    \/ TimeoutScreenshot \/ TimeoutQuitAndReturn \/ TimeoutHandlerFails
    \/ OuterHandler \/ OuterQuitFails
    \/ Deduplicate \/ Organize
    \/ WriteFindings \/ WriteFindingsFails
    \/ SaveRaw \/ SaveRawFails

Spec == Init /\ [][Next]_vars

(***************************************************************************)
(* The report part of check_empty_cells on any sequence of findings        *)
(***************************************************************************)
MaxFindings == 3

\* descriptions as the scan composes them, and descriptions without the
\* structure of those
FindingPool ==
    {TableFinding(<<"Table", Blank, "1">>, 1, <<>>, 0,
                  <<Blank, "(", "Kolonka:", Blank, "h", "1", ")">>),
     TableFinding(<<"Table", Blank, "2">>, 1, <<>>, 1, <<>>),
     GridFinding(<<"x-grid-item-container", Blank, "1">>, <<"0">>,
                 <<"Kolonka", Blank, "1">>),
     GridFinding(<<"x-grid", Blank, "1">>, <<"0">>, <<"gridcolumn-2">>),
     GridFinding(<<"x-grid", Blank, "1">>, <<"1">>, <<"gridcolumn-2">>),
     <<"free", Blank, "text">>,
     <<"Row", Blank, "7">>,
     <<Blank, "Table", Blank, "1", Blank, Comma, Blank, "row", Blank, "x">>,
     Other \o <<Comma, Blank, "item">>}

RawSequences == UNION {[1..n -> FindingPool] : n \in 0..MaxFindings}

InitBot ==
    /\ page = Page(<<>>, NoGrids, 0)
    /\ pc = "returned"
    /\ driver = "quit"
    /\ sel = NumSelectors
    /\ elements = 0
    /\ elIdx = 1
    /\ local_cells = <<>>
    /\ cells = Unbound
    /\ empty_cells \in RawSequences
    /\ pending = "none"
    /\ result = [kind |-> "returned", value |-> empty_cells, exc |-> "none"]
    /\ unique_cells = <<>>
    /\ organized = <<>>
    /\ nfaults = 0
    /\ hist = NoHist
    /\ InitReport /\ InitChat

NextBot ==
    \/ Deduplicate \/ AllFilledReply \/ Organize
    \/ WriteFindings \/ WriteFindingsFails
    \/ SaveRaw \/ SaveRawFails

SpecBot == InitBot /\ [][NextBot]_vars

(***************************************************************************)
(* The handler threads of the bot serving /check messages                  *)
(***************************************************************************)
InitThreads ==
    /\ page = Page(<<>>, NoGrids, 0)
    /\ InitScan /\ InitReport /\ InitChat

NextThreads ==
    \E t \in Threads :
        \/ Receive(t)
        \/ AlreadyRunning(t) \/ NotRunning(t)
        \/ HasAttr(t) \/ NewSet(t) \/ AddChat(t)
        \/ StartReply(t) \/ StartReplyFails(t)
        \/ ScanEnds(t) \/ Finally(t)

SpecThreads == InitThreads /\ [][NextThreads]_vars

(***************************************************************************)
(* Properties                                                              *)
(***************************************************************************)
Finished ==
    pc \in {"returned", "raised", "deduped", "organized", "numbered", "saved",
            "failed"}
Returned == result.kind = "returned"
Raised == result.kind = "raised"

\* a TimeoutException was caught at line 108
TimeoutCaught == pending = "timeout"

C2_TimeoutReturnsError ==
    (hist.waitTimeout /\ Finished) =>
        (Returned /\ result.value = <<TimeoutError>>)

\* C3 (as stated): when acquisition times out the scan raises and returns
\* no finding sequence.
C3_AsStated == (hist.waitTimeout /\ Finished) => Raised

\* C3 (amended): when acquisition times out the timeout is not raised to the
\* caller: the scan returns exactly one synthetic error finding; it raises only
\* when a driver call of the timeout handler itself (screenshot, quit) fails.
C3_TimeoutIsHandled ==
    (hist.waitTimeout /\ Finished) =>
        \/ Returned /\ Len(result.value) = 1 /\ result.value[1] = TimeoutError
        \/ Raised /\ hist.handlerFault /\ result.value = <<>>

C3_Witness ==
    /\ hist.waitTimeout /\ pc = "returned"
    /\ result.value = <<TimeoutError>> /\ driver = "quit"

C5_NoRaiseAfterSnapshot == (hist.snapshot /\ Finished) => Returned

Range(f) == {f[i] : i \in 1..Len(f)}

\* the elements the selector loop has to visit: those of every selector whose
\* find_elements call did not raise
ExpectedVisits ==
    UNION {{<<s, i>> : i \in 1..Len(ElementsOf(s))} :
              s \in (1..NumSelectors) \ hist.findFailed}

\* what the element yields when none of its calls raises
FaultFreeFindings(s, i) ==
    IF s = 1 THEN ProcessTable(page.tables[i], i - 1, Unbound, {}).out
    ELSE ProcessGrid(page.grids[s][i], s, i - 1, {})

\* C6: a failure while processing one selector or one matched element never
\* stops the others: whenever the only faults are such failures the scan
\* returns, every selector was queried once in order, every element of every
\* selector that could be queried was visited once in order, and the findings
\* of every element that did not fail are in the returned sequence.
C6_FaultsStayLocal ==
    (Finished /\ hist.snapshot /\ ~hist.lateFault) =>
        /\ Returned
        /\ hist.queried = [i \in 1..NumSelectors |-> i]
        /\ Range(hist.visited) = ExpectedVisits
        /\ \A i, j \in 1..Len(hist.visited) :
              i < j => \/ hist.visited[i][1] < hist.visited[j][1]
                       \/ /\ hist.visited[i][1] = hist.visited[j][1]
                          /\ hist.visited[i][2] < hist.visited[j][2]
        /\ \A v \in ExpectedVisits \ hist.faulted :
              Range(FaultFreeFindings(v[1], v[2])) \subseteq Range(result.value)

C6_Witness ==
    /\ Returned /\ 1 \in hist.findFailed /\ <<2, 1>> \in hist.faulted
    /\ Len(page.grids[2]) = 2
    /\ FaultFreeFindings(2, 1) # <<>>
    /\ FaultFreeFindings(2, 1)[1] \notin Range(result.value)
    /\ FaultFreeFindings(2, 2) # <<>>
    /\ FaultFreeFindings(2, 2)[1] \in Range(result.value)

\* every td cell, grid cell and inner content container has text
AllFilled(p) ==
    /\ \A t \in 1..Len(p.tables) : \A r \in 1..Len(p.tables[t].rows) :
          \A c \in 1..Len(p.tables[t].rows[r].td) :
             Strip(p.tables[t].rows[r].td[c]) # <<>>
    /\ \A s \in 2..NumSelectors : \A g \in 1..Len(p.grids[s]) :
          /\ \A c \in 1..Len(GridCells(p.grids[s][g])) :
                Strip(GridCells(p.grids[s][g])[c].text) # <<>>
          /\ \A c \in 1..Len(p.grids[s][g].inner) :
                Strip(p.grids[s][g].inner[c]) # <<>>

OneTableOnly(p) ==
    Len(p.tables) = 1 /\ \A s \in 2..NumSelectors : p.grids[s] = <<>>

\* the positions of the empty cells of a table, counting th and td cells of a
\* row together, and counting its td cells only
EmptyCellsOf(table) ==
    UNION {{<<r, c>> : c \in {k \in 1..Len(table.rows[r].th \o table.rows[r].td) :
                                Strip((table.rows[r].th \o table.rows[r].td)[k]) = <<>>}} :
              r \in 1..Len(table.rows)}

EmptyTdsOf(table) ==
    UNION {{<<r, c>> : c \in {k \in 1..Len(table.rows[r].td) :
                                Strip(table.rows[r].td[k]) = <<>>}} :
              r \in 1..Len(table.rows)}

StartsWith(s, pre) == Len(s) >= Len(pre) /\ SubSeq(s, 1, Len(pre)) = pre
EndsWith(s, post) ==
    Len(s) >= Len(post) /\ SubSeq(s, Len(s) - Len(post) + 1, Len(s)) = post

\* reading a finding of a table back: its structure, row and column locators
\* and the header text it carries
LocatorIs(finding, part, word, n) ==
    /\ Len(Split(finding)) >= part
    /\ LET p == Strip(Split(finding)[part])
       IN  /\ StartsWith(p, <<word, Blank, Num(n)>>)
           /\ (Len(p) = 3 \/ p[4] \in {Blank, "("})
StructureIs(finding, id) ==
    Split(finding) # <<>> /\ Strip(Split(finding)[1]) = id
RowLocatorIs(finding, r) == LocatorIs(finding, 2, "Stroka", r)
ColLocatorIs(finding, c) == LocatorIs(finding, 3, "Kolonka", c)
CarriesHeader(finding, h) ==
    EndsWith(finding, <<Blank, "(", "Kolonka:", Blank>> \o h \o <<")">>)

\* C8: a table whose only empty cell is at row r, column c
\* (1-based) yields exactly one finding for it, with the table's identifier,
\* the locators r and c, and the header text of column c when the table has
\* headers.
C8_AsStated ==
    (/\ OneTableOnly(page) /\ nfaults = 0 /\ Returned
     /\ Cardinality(EmptyCellsOf(page.tables[1])) = 1) =>
        LET table == page.tables[1]
            rc == CHOOSE x \in EmptyCellsOf(table) : TRUE
        IN  /\ hist.found = 1 /\ Len(result.value) = 1
            /\ StructureIs(result.value[1], TableId(table, 0))
            /\ RowLocatorIs(result.value[1], rc[1])
            /\ ColLocatorIs(result.value[1], rc[2])
            /\ (AllHeaders(table, {}) # <<>> /\ rc[2] <= Len(AllHeaders(table, {}))
                /\ AllHeaders(table, {})[rc[2]] # <<>>)
               => CarriesHeader(result.value[1], AllHeaders(table, {})[rc[2]])

\* What does hold of a table with one empty cell: when the only empty td cell
\* is at row r >= 2, at position c among the td cells of that row, the scan
\* yields exactly one finding, with the table's identifier and the locators
\* r and c; it carries the text of the c-th header when all th cells of the
\* table are in its first row (or, without th cells, the first row's td
\* cells are the headers) and that text is not empty.
OneEmptyTdBelowFirstRow ==
    (/\ OneTableOnly(page) /\ nfaults = 0 /\ Returned
     /\ Cardinality(EmptyTdsOf(page.tables[1])) = 1
     /\ \A x \in EmptyTdsOf(page.tables[1]) : x[1] >= 2) =>
        LET table == page.tables[1]
            rc == CHOOSE x \in EmptyTdsOf(table) : TRUE
            first == IF table.rows[1].th # <<>> THEN table.rows[1].th
                     ELSE table.rows[1].td
        IN  /\ hist.found = 1 /\ Len(result.value) = 1
            /\ StructureIs(result.value[1], TableId(table, 0))
            /\ RowLocatorIs(result.value[1], rc[1])
            /\ ColLocatorIs(result.value[1], rc[2])
            /\ (AllTh(table.rows) = table.rows[1].th /\ rc[2] <= Len(first)
                /\ Strip(first[rc[2]]) # <<>>)
               => CarriesHeader(result.value[1], Strip(first[rc[2]]))

\* the fixture of two tables: three empty cells in one data row of the
\* first, under three distinct headers, and a second table that is full
ThreeEmptyInFirstOfTwo(p) ==
    /\ Len(p.tables) = 2 /\ \A s \in 2..NumSelectors : p.grids[s] = <<>>
    /\ Cardinality(EmptyTdsOf(p.tables[1])) = 3
    /\ \A x, y \in EmptyTdsOf(p.tables[1]) : x[1] = y[1] /\ x[1] >= 2
    /\ LET h == AllHeaders(p.tables[1], {})
       IN  \A x, y \in EmptyTdsOf(p.tables[1]) :
              /\ x[2] <= Len(h) /\ h[x[2]] # <<>>
              /\ (x # y => h[x[2]] # h[y[2]])
    /\ EmptyCellsOf(p.tables[2]) = {}

BucketSizes(key) ==
    {Len(organized[i].items) : i \in {j \in 1..Len(organized) : organized[j].key = key}}

\* C9: with three empty cells in the first of two tables and a full second
\* table, the grouped result has exactly three findings under the first
\* table and none under the second.
C9_ThreeFindingsUnderFirstTable ==
    (ThreeEmptyInFirstOfTwo(page) /\ nfaults = 0 /\ pc = "organized") =>
        /\ BucketSizes(<<"Table", Blank, "1">>) = {3}
        /\ BucketSizes(<<"Table", Blank, "2">>) \subseteq {0}

\* the positions of the findings whose key no earlier finding has
FirstOfKey(raw) ==
    {i \in 1..Len(raw) : \A j \in 1..(i - 1) : CellKey(raw[j]) # CellKey(raw[i])}

\* C10: de-duplication keeps exactly the findings whose key did not occur
\* earlier in the input, in the order of the input, and drops every other
\* finding.
C10_DedupKeepsFirstOfEachKey ==
    pc \in {"deduped", "organized"} =>
        LET raw == result.value
            firsts == FirstOfKey(raw)
        IN  /\ Len(unique_cells) = Cardinality(firsts)
            /\ \A k \in 1..Len(unique_cells) :
                  \E i \in firsts :
                     /\ Cardinality({j \in firsts : j <= i}) = k
                     /\ unique_cells[k] = raw[i]

C10_Witness ==
    /\ pc = "deduped"
    /\ \E i, j, k \in 1..Len(result.value) :
          /\ i < j /\ j < k
          /\ CellKey(result.value[i]) = CellKey(result.value[j])
          /\ result.value[i] # result.value[j]
          /\ k \in FirstOfKey(result.value)
    /\ Len(unique_cells) < Len(result.value)
    /\ unique_cells[Len(unique_cells)] = result.value[Len(result.value)]

\* the report part has run the de-duplication
Deduped == pc \in {"deduped", "all_filled", "organized", "numbered", "saved", "failed"}

\* C11: de-duplication is idempotent: applied to its own output it yields
\* the same sequence, same findings in the same order.
C11_DedupIdempotent == Deduped => Dedup(unique_cells) = unique_cells

C11_Witness ==
    /\ pc = "deduped"
    /\ Len(unique_cells) = 2 /\ Len(result.value) = MaxFindings
    /\ Dedup(unique_cells) = unique_cells

\* C12: the record written by save_empty_cells_to_file has the fields
\* timestamp and empty_cells, and its empty_cells is the sequence the scan
\* returned, findings of equal key included, in the same order, not the
\* de-duplicated sequence.
C12_RawSequencePersisted ==
    raw_file.written =>
        /\ pc = "saved"
        /\ DOMAIN raw_file.data = {"timestamp", "empty_cells"}
        /\ raw_file.data.empty_cells = result.value
        /\ Len(unique_cells) <= Len(raw_file.data.empty_cells)

C12_Witness ==
    /\ pc = "saved" /\ raw_file.written
    /\ raw_file.data.empty_cells = result.value
    /\ Len(result.value) > 2
    /\ Len(unique_cells) < Len(result.value)
    /\ hist.found = Len(result.value)

\* the report part has grouped the findings
Grouped == pc \in {"organized", "numbered", "saved", "failed"}

\* the description does not split into (structure, remainder)
Unstructured(cell) == Len(Split1(cell)) = 1

\* the items of the bucket of that key (none if there is no such bucket)
ItemsOf(org, key) ==
    UNION {Range(org[i].items) : i \in {j \in 1..Len(org) : org[j].key = key}}

BucketOf(cell) == IF Unstructured(cell) THEN Other ELSE Strip(Split1(cell)[1])
ItemOf(cell) == IF Unstructured(cell) THEN cell ELSE Strip(Split1(cell)[2])

FirstSeen(cs, key) ==
    CHOOSE i \in 1..Len(cs) :
        BucketOf(cs[i]) = key /\ \A j \in 1..(i - 1) : BucketOf(cs[j]) # key

\* the descriptions of one bucket, in the order of the input
Members(cs, key) ==
    LET InBucket(cell) == BucketOf(cell) = key
    IN  SelectSeq(cs, InBucket)

\* C14: organize_empty_cells groups by the text before the first separator:
\* the buckets are in the order in which their identifier is first seen,
\* the findings of a bucket keep their input order, and a description that
\* does not split goes to the catch-all bucket.
C14_GroupedInFirstSeenOrder ==
    Grouped =>
        /\ {organized[b].key : b \in 1..Len(organized)}
              = {BucketOf(unique_cells[i]) : i \in 1..Len(unique_cells)}
        /\ \A a, b \in 1..Len(organized) :
              a < b => FirstSeen(unique_cells, organized[a].key)
                          < FirstSeen(unique_cells, organized[b].key)
        /\ \A b \in 1..Len(organized) :
              organized[b].items
                 = [k \in 1..Len(Members(unique_cells, organized[b].key)) |->
                       ItemOf(Members(unique_cells, organized[b].key)[k])]

C14_Witness ==
    /\ pc = "organized" /\ Len(organized) = 2 /\ Len(unique_cells) = 3
    /\ organized[1].key = Other /\ Len(organized[1].items) = 2
    /\ Unstructured(unique_cells[1]) /\ ~Unstructured(unique_cells[3])
    /\ BucketOf(unique_cells[2]) = <<"Table", Blank, "1">>
    /\ organized[2].key = <<"Table", Blank, "1">>

RECURSIVE SumSizes(_)
SumSizes(org) ==
    IF org = <<>> THEN 0 ELSE Len(Head(org).items) + SumSizes(Tail(org))

\* C15: organize_empty_cells partitions its input: the sizes of the buckets
\* add up to the length of the input and every finding is in exactly one
\* bucket.
C15_BucketsPartitionInput ==
    Grouped =>
        /\ SumSizes(organized) = Len(unique_cells)
        /\ \A i \in 1..Len(unique_cells) :
              Cardinality({b \in 1..Len(organized) :
                              organized[b].key = BucketOf(unique_cells[i])}) = 1
        /\ \A b \in 1..Len(organized) :
              Len(organized[b].items)
                 = Cardinality({i \in 1..Len(unique_cells) :
                                   BucketOf(unique_cells[i]) = organized[b].key})

C15_Witness ==
    /\ pc = "organized" /\ Len(unique_cells) = MaxFindings
    /\ Len(organized) = 2 /\ SumSizes(organized) = MaxFindings
    /\ \E b \in 1..2 : organized[b].key = Other /\ Len(organized[b].items) = 1

\* thread t is between setting (line 121) and clearing (line 298) the mark
\* of its chat
ScanActive(t) == handler[t].pc \in {"reply", "scan", "finally"}

\* C16: for every chat at most one scan is active at any time, also when two
\* /check messages of the chat are handled by different handler threads.
C16_OneScanPerChat ==
    \A t, u \in Threads :
        (t # u /\ ScanActive(t) /\ ScanActive(u)) => handler[t].chat # handler[u].chat

\* the findings of the selectors, in the order in which they were handed over
RECURSIVE Concat(_)
Concat(contrib) ==
    IF contrib = <<>> THEN <<>> ELSE Head(contrib)[2] \o Concat(Tail(contrib))

\* C17: the selectors are tried in the one fixed order, each once, with no
\* retry; a selector that matches no element contributes nothing and is no
\* error; in the returned sequence the findings of an earlier selector come
\* before those of a later one.
C17_SelectorsInFixedOrder ==
    /\ hist.queried = [i \in 1..Len(hist.queried) |-> i]
    /\ Len(hist.queried) <= NumSelectors
    /\ \A k \in 1..Len(hist.contrib) :
          /\ hist.contrib[k][1] \in Range(hist.queried) \ hist.findFailed
          /\ ElementsOf(hist.contrib[k][1]) # <<>>
          /\ \A j \in 1..(k - 1) : hist.contrib[j][1] < hist.contrib[k][1]
    /\ (Returned /\ ~TimeoutCaught) =>
          /\ Len(hist.queried) = NumSelectors
          /\ hist.found > 0 => result.value = Concat(hist.contrib)

C17_Witness ==
    /\ Returned /\ nfaults = 0
    /\ Len(hist.contrib) = 3
    /\ hist.contrib[1][1] = 1 /\ hist.contrib[2][1] = 2 /\ hist.contrib[3][1] = 5
    /\ \A k \in 1..3 : hist.contrib[k][2] # <<>>
    /\ result.value = hist.contrib[1][2] \o hist.contrib[2][2] \o hist.contrib[3][2]

\* the rows that supply the headers of a table: those holding th cells, or
\* the first row when the table has no th cell
HeaderSourceRows(table) ==
    IF AllTh(table.rows) # <<>>
    THEN {r \in 1..Len(table.rows) : table.rows[r].th # <<>>}
    ELSE IF table.rows # <<>> THEN {1} ELSE {}

\* the returned sequence has a finding of that table, row and column
Located(table_id, r, c) ==
    \E i \in 1..Len(result.value) :
        /\ StructureIs(result.value[i], table_id)
        /\ RowLocatorIs(result.value[i], r)
        /\ ColLocatorIs(result.value[i], c)

\* C18: the headers of a table come from its th cells when it has any, else
\* from its first row; every row that did not supply the headers is scanned,
\* so that each of its empty cells is reported: a first row is skipped only
\* when it was the header source.
C18_OnlyHeaderSourceSkipped ==
    (Returned /\ nfaults = 0) =>
        \A t \in 1..Len(page.tables) :
            /\ AllHeaders(page.tables[t], {})
                  = StripAll(IF AllTh(page.tables[t].rows) # <<>>
                             THEN AllTh(page.tables[t].rows)
                             ELSE IF page.tables[t].rows # <<>>
                                  THEN page.tables[t].rows[1].td ELSE <<>>)
            /\ \A rc \in EmptyTdsOf(page.tables[t]) :
                  rc[1] \notin HeaderSourceRows(page.tables[t])
                     => Located(TableId(page.tables[t], t - 1), rc[1], rc[2])

\* the empty td cells of the rows the scan of a table goes through
ScannedEmptyTds(table) ==
    {rc \in EmptyTdsOf(table) :
        rc[1] > StartRow(AllHeaders(table, {}), table.rows)}

TextAt(texts, c) == IF c <= Len(texts) THEN Strip(texts[c]) ELSE <<>>

\* what the finding of column c of a table ends with
ColumnSuffix(table, c) ==
    LET resolved == TextAt(AllHeaders(table, {}), c)
        th == TextAt(AllTh(table.rows), c)
        td == TextAt(table.rows[1].td, c)
    IN  <<"Kolonka", Blank, Num(c)>>
        \o (IF resolved # <<>>
            THEN <<Blank, "(", "Kolonka:", Blank>> \o resolved \o <<")">>
            ELSE IF th # <<>> THEN <<"(", "Header:", Blank>> \o th \o <<")">>
            ELSE IF td # <<>> THEN <<"(", "Header:", Blank>> \o td \o <<")">>
            ELSE <<>>)

\* the findings of the returned sequence that name that structure
FindingsOf(structure) ==
    {i \in 1..Len(result.value) : StructureIs(result.value[i], structure)}

\* C19: every empty cell of a scanned row of a table gives exactly one
\* finding; it carries the resolved header of the column when that is not
\* empty, else the text of the secondary lookup (the th at the column index,
\* then the first row's td at the column index), else only the 1-based
\* positional column label.
C19_OneFindingPerEmptyCell ==
    (Returned /\ ~TimeoutCaught) =>
        \A t \in 1..Len(page.tables) :
            (<<1, t>> \in Range(hist.visited) \ hist.faulted) =>
                LET table == page.tables[t]
                    mine == FindingsOf(TableId(table, t - 1))
                IN  /\ Cardinality(mine) = Cardinality(ScannedEmptyTds(table))
                    /\ \A rc \in ScannedEmptyTds(table) :
                          \E i \in mine :
                             /\ RowLocatorIs(result.value[i], rc[1])
                             /\ Len(Split(result.value[i])) = 3
                             /\ Strip(Split(result.value[i])[3])
                                   = ColumnSuffix(table, rc[2])

C19_Witness ==
    /\ Returned /\ nfaults = 0 /\ OneTableOnly(page)
    /\ Len(result.value) = 2
    /\ EndsWith(result.value[1], <<"Kolonka", Blank, "1", "(", "Header:", Blank, "a", ")">>)
    /\ CarriesHeader(result.value[2], HeaderName(2))

\* the technique finds an element with text
YieldsText(texts) == \E i \in 1..Len(texts) : Strip(texts[i]) # <<>>

\* the grids the scan went through without a fault
ScannedGrids ==
    {v \in Range(hist.visited) \ hist.faulted : v[1] > 1}

\* C20: the header techniques of a grid are a strict cascade over (a) the
\* div.x-column-header elements, (b) the span.x-column-header-text elements,
\* (c) the cells of the first row: a later technique is attempted exactly
\* when every earlier one yielded no header text.
C20_StrictHeaderCascade ==
    \A v \in ScannedGrids :
        LET el == page.grids[v[1]][v[2]]
            tried == MethodsTried(el, {})
        IN  /\ 1 \in tried
            /\ 2 \in tried <=> ~YieldsText(el.hdr1)
            /\ 3 \in tried <=> (~YieldsText(el.hdr1) /\ ~YieldsText(el.hdr2))

\* the header of every position of the first row of the grid whose cell has
\* text: the trimmed text of that cell, under the index of the cell
FirstRowHeaders(el) ==
    LET first == el.rows[1].cells
    IN  [i \in {j \in 0..(Len(first) - 1) : Strip(first[j + 1].text) # <<>>} |->
            Strip(first[i + 1].text)]

\* the grid has no div.x-column-header and no span.x-column-header-text
\* element, and a first row with cells
OnlyFirstRowHeaders(el) ==
    el.hdr1 = <<>> /\ el.hdr2 = <<>> /\ el.rows # <<>> /\ el.rows[1].cells # <<>>

\* C21: a grid without header elements and without header text spans whose
\* first row has cells takes its headers from that row: position i has the
\* trimmed text of the first row's cell i as header, a position whose cell is
\* empty has none and the other positions keep their index; the findings of
\* the grid are composed with these headers.
C21_HeadersFromFirstRow ==
    \A v \in ScannedGrids :
        LET el == page.grids[v[1]][v[2]]
        IN  OnlyFirstRowHeaders(el) =>
               /\ HeaderTexts(el, {}) = FirstRowHeaders(el)
               /\ (Returned /\ ~TimeoutCaught) =>
                     Range(GridCellLoop(GridCells(el), GridId(el, v[1], v[2] - 1),
                                        FirstRowHeaders(el), RowIdentifiers(el, {}),
                                        0, {}, <<>>))
                        \subseteq Range(result.value)

C21_Witness ==
    /\ Returned /\ nfaults = 0
    /\ \E v \in ScannedGrids :
          LET el == page.grids[v[1]][v[2]]
          IN  /\ OnlyFirstRowHeaders(el)
              /\ DOMAIN HeaderTexts(el, {}) = {1}
              /\ result.value[1] = GridFinding(GridId(el, v[1], v[2] - 1), <<"0">>,
                                               <<"Kolonka", Blank, "1">>)

\* the findings of the returned sequence that name that structure, in order
ElementFindings(structure) ==
    SelectSeq(result.value, LAMBDA f : StartsWith(f, structure \o <<Comma>>))

\* the positions of the empty cells among the div.x-grid-cell elements of a
\* grid, in document order
EmptyGridCells(el) ==
    SelectSeq([k \in 1..Len(GridCells(el)) |-> k],
              LAMBDA k : Strip(GridCells(el)[k].text) = <<>>)

\* the row and column parts of a finding of a grid
RowPart(finding) == Strip(Split(finding)[2])
ColPart(finding) == Strip(Split(finding)[3])

\* the scan returned the findings of its selectors
ScanReturned == Returned /\ ~TimeoutCaught

\* C22: the finding of an empty grid cell has as row locator the
\* data-recordindex of the nearest div.x-grid-item ancestor of the cell when
\* that attribute exists, and otherwise a row number approximated from the
\* position of the cell.
C22_RowLocatorResolved ==
    ScanReturned =>
        \A v \in ScannedGrids :
            LET el == page.grids[v[1]][v[2]]
                cs == GridCells(el)
                empties == EmptyGridCells(el)
                mine == ElementFindings(GridId(el, v[1], v[2] - 1))
            IN  cs # <<>> =>
                /\ Len(mine) = Len(empties)
                /\ \A j \in 1..Len(empties) :
                      LET cell == cs[empties[j]]
                      IN  IF cell.hasRow /\ cell.recidx # <<>>
                          THEN StartsWith(RowPart(mine[j]),
                                          <<"Stroka", Blank>> \o cell.recidx)
                          ELSE \E n \in 0..Len(cs) :
                                  RowPart(mine[j]) = <<"Stroka", Blank, Num(n)>>

\* the number of header positions of a grid: the elements of the technique
\* that resolved its headers (for the third technique the cells of the first
\* row)
HeaderPositions(el) ==
    IF el.hdr1 # <<>> THEN Len(el.hdr1)
    ELSE IF el.hdr2 # <<>> THEN Len(el.hdr2)
    ELSE IF el.rows # <<>> THEN Len(el.rows[1].cells)
    ELSE 0

\* C23: the finding of an empty grid cell has as column locator the
\* data-columnid of the cell when it has one; otherwise the 1-based column
\* index (position of the cell among the cells of the grid modulo the number
\* of header positions), followed by the header resolved for that index when
\* there is one.
C23_ColumnLocatorResolved ==
    ScanReturned =>
        \A v \in ScannedGrids :
            LET el == page.grids[v[1]][v[2]]
                cs == GridCells(el)
                empties == EmptyGridCells(el)
                mine == ElementFindings(GridId(el, v[1], v[2] - 1))
                n == HeaderPositions(el)
                header_texts == HeaderTexts(el, {})
            IN  (cs # <<>> /\ n > 0) =>
                /\ Len(mine) = Len(empties)
                /\ \A j \in 1..Len(empties) :
                      LET cell == cs[empties[j]]
                          col_index == (empties[j] - 1) % n
                      IN  ColPart(mine[j]) =
                             (IF cell.colid # <<>> THEN cell.colid
                              ELSE <<"Kolonka", Blank, Num(col_index + 1)>>
                                   \o (IF col_index \in DOMAIN header_texts
                                       THEN <<Blank, "(">> \o header_texts[col_index]
                                            \o <<")">>
                                       ELSE <<>>))
                             \o EmptyCellSuffix

\* the positions of the empty div.x-grid-cell-inner elements of a grid
EmptyInner(el) ==
    SelectSeq([k \in 1..Len(el.inner) |-> k], LAMBDA k : Strip(el.inner[k]) = <<>>)

\* a finding located by an item index, and one located by row and column
ItemFinding(finding, n) ==
    LET parts == Split(finding)
    IN  Len(parts) = 2 /\ StartsWith(Strip(parts[2]), <<"Zapis", Blank, Num(n), Blank>>)
IsItemFinding(finding) ==
    LET parts == Split(finding)
    IN  Len(parts) >= 2 /\ StartsWith(Strip(parts[2]), <<"Zapis">>)
IsRowColFinding(finding) ==
    LET parts == Split(finding)
    IN  Len(parts) >= 3 /\ StartsWith(Strip(parts[2]), <<"Stroka">>)

\* C24: the div.x-grid-cell-inner elements of a grid are scanned exactly when
\* the grid has no div.x-grid-cell element; then every empty one gives one
\* finding with its 1-based item index and the grid gives no row/column
\* finding; a grid with cells gives one row/column finding for every empty
\* cell and no item finding.
C24_InnerFallbackOnlyWithoutCells ==
    ScanReturned =>
        \A v \in ScannedGrids :
            LET el == page.grids[v[1]][v[2]]
                mine == ElementFindings(GridId(el, v[1], v[2] - 1))
            IN  IF GridCells(el) = <<>>
                THEN /\ Len(mine) = Len(EmptyInner(el))
                     /\ \A j \in 1..Len(mine) : ItemFinding(mine[j], EmptyInner(el)[j])
                ELSE /\ Len(mine) = Len(EmptyGridCells(el))
                     /\ \A j \in 1..Len(mine) : IsRowColFinding(mine[j])
                     /\ \A j \in 1..Len(mine) : ~IsItemFinding(mine[j])

C24_Witness ==
    /\ Returned /\ nfaults = 0
    /\ \E v, w \in ScannedGrids :
          LET a == page.grids[v[1]][v[2]]
              b == page.grids[w[1]][w[2]]
          IN  /\ GridCells(a) # <<>> /\ EmptyInner(a) # <<>>
              /\ \E f \in Range(ElementFindings(GridId(a, v[1], v[2] - 1))) :
                    IsRowColFinding(f)
              /\ GridCells(b) = <<>> /\ EmptyInner(b) # <<>>
              /\ \E f \in Range(ElementFindings(GridId(b, w[1], w[2] - 1))) :
                    ItemFinding(f, 1)

\* the calls on one cell of a grid (its text, its row ancestor and the
\* attribute of that, its column attribute) and the calls of the header
\* techniques
CellAndHeaderFaults(el) ==
    {f \in GridFaultPoints(el) :
        f[1] \in {"gcelltext", "rowparent", "recidx", "colid",
                  "m1", "m2", "m3", "m3row", "m1text", "m2text", "m3text"}}

\* the empty cells of a grid whose text can be read
ReadableEmptyCells(el, F) ==
    {k \in 1..Len(GridCells(el)) :
        Strip(GridCells(el)[k].text) = <<>> /\ <<"gcelltext", k - 1>> \notin F}

\* C25: whichever calls on single cells or header techniques of a grid raise,
\* the rest of the grid is processed: every empty cell whose text can be read
\* is reported.
C25_CellFaultsStayLocal ==
    (pc = "process" /\ sel > 1 /\ elIdx <= elements) =>
        LET el == page.grids[sel][elIdx]
        IN  \A F \in ElementFaults(GridFaultPoints(el)) :
               F \subseteq CellAndHeaderFaults(el) =>
                  Len(ProcessGrid(el, sel, elIdx - 1, F))
                     >= Cardinality(ReadableEmptyCells(el, F))

\* the cell a finding denotes: its structure identifier and its locators
CellOf(finding) == StripAll(Split(finding))

\* C26: the deduplication never drops a distinct cell: two findings of the
\* scan that differ in structure identifier, row locator or column locator
\* are both in the deduplicated sequence.
C26_DistinctCellsKept ==
    Deduped =>
        \A i, j \in 1..Len(result.value) :
            CellOf(result.value[i]) # CellOf(result.value[j]) =>
                /\ result.value[i] \in Range(unique_cells)
                /\ result.value[j] \in Range(unique_cells)

\* C27: every finding of a table describes an empty td cell of the row its
\* row locator names, at the position its column locator names: a row whose
\* cell lookup failed gives no finding, and the cells read for an earlier row
\* are not reported again under the index of a later row.
C27_FindingsBelongToTheirRow ==
    ScanReturned =>
        \A v \in Range(hist.visited) :
            v[1] = 1 =>
                LET table == page.tables[v[2]]
                    mine == ElementFindings(TableId(table, v[2] - 1))
                IN  \A j \in 1..Len(mine) :
                        \E rc \in EmptyTdsOf(table) :
                            /\ RowLocatorIs(mine[j], rc[1])
                            /\ ColLocatorIs(mine[j], rc[2])

\* the invocation of thread t has passed the guard and has not ended
PastGuard(t) == handler[t].pc \in {"reply", "scan", "finally"}

\* C28: an invocation that passed the in-progress guard removes the mark of
\* its chat before it ends, on every path: a chat is marked only while an
\* invocation for it is past the guard and has not ended.
C28_MarkRemovedBeforeEnd ==
    \A c \in checking_chats.chats :
        \E t \in Threads : handler[t].chat = c /\ PastGuard(t)

Numbered == pc \in {"numbered", "saved", "failed"}

\* the numbered findings of all buckets, bucket after bucket
RECURSIVE FlatItems(_)
FlatItems(buckets) ==
    IF buckets = <<>> THEN <<>>
    ELSE Head(buckets).items \o FlatItems(Tail(buckets))

\* C30: within one run the finding identifiers are exactly 1..N, N the number
\* of deduplicated findings: the buckets are those of the grouping, in their
\* order, every finding of a bucket has one identifier, and read bucket after
\* bucket, in the order within the bucket, the identifiers are 1, 2, ..., N.
C30_IdentifiersAreOneToN ==
    Numbered =>
        LET flat == FlatItems(findings_with_ids)
        IN  /\ Len(findings_with_ids) = Len(organized)
            /\ \A b \in 1..Len(organized) :
                  /\ findings_with_ids[b].key = organized[b].key
                  /\ Len(findings_with_ids[b].items) = Len(organized[b].items)
                  /\ \A k \in 1..Len(organized[b].items) :
                        findings_with_ids[b].items[k].description
                           = organized[b].items[k]
            /\ Len(flat) = Len(unique_cells)
            /\ \A k \in 1..Len(flat) : flat[k].id = k

C30_Witness ==
    /\ pc = "numbered"
    /\ Len(findings_with_ids) = 2
    /\ Len(findings_with_ids[1].items) = 2
    /\ findings_with_ids[2].items[1].id = 3

====
